---- MODULE Spec2Model ----
(***************************************************************************)
(* Model of Website/app.py: the Flask routes /api/<ticker>/daily, monthly, *)
(* intraday and decision, the three series formatters, the market-data     *)
(* adapter get_stock_data and the decision handler get_decision.           *)
(*                                                                         *)
(* Representation.  Text (tickers, labels, exception messages, the model's *)
(* reply) is TLA+ strings.  A calendar date is its proleptic Gregorian day *)
(* number counted from 1970-01-01; a time of day is minutes after 00:00.   *)
(* A close price is an IEEE-754 double, given by the decimal literal (in   *)
(* thousandths) it is the nearest double to; doubles are held exactly as   *)
(* m * 2^e with m a 53-bit integer in 15-bit limbs.  A value rounded by    *)
(* round(x, 2) is held as its integer number of hundredths.                *)
(***************************************************************************)
EXTENDS Integers, Sequences, FiniteSets, TLC

VARIABLES GEMINI_API_KEY, request, response, calls, log

vars == <<GEMINI_API_KEY, request, response, calls, log>>

Min(a, b) == IF a < b THEN a ELSE b

(***************************************************************************)
(* Unbounded naturals: little-endian sequences of limbs below 2^15, no     *)
(* high zero limb; <<>> is zero.                                           *)
(***************************************************************************)
LimbBits == 3 * 5
Base == 2^LimbBits

RECURSIVE BigFromInt(_)
BigFromInt(n) ==
    IF n = 0 THEN <<>> ELSE <<n % Base>> \o BigFromInt(n \div Base)

RECURSIVE BigToInt(_)
BigToInt(a) ==
    IF a = <<>> THEN 0 ELSE Head(a) + Base * BigToInt(Tail(a))

RECURSIVE BigTrim(_)
BigTrim(a) ==
    IF a = <<>> THEN <<>>
    ELSE IF a[Len(a)] = 0 THEN BigTrim(SubSeq(a, 1, Len(a) - 1))
    ELSE a

RECURSIVE BigMulCarry(_, _, _)
BigMulCarry(a, k, c) ==
    IF a = <<>> THEN BigFromInt(c)
    ELSE LET t == Head(a) * k + c
         IN  <<t % Base>> \o BigMulCarry(Tail(a), k, t \div Base)

\* a * k for 0 <= k <= Base
BigMulSmall(a, k) == BigTrim(BigMulCarry(a, k, 0))

RECURSIVE BigDivRemRaw(_, _)
BigDivRemRaw(a, k) ==
    IF a = <<>> THEN [q |-> <<>>, r |-> 0]
    ELSE LET hi == BigDivRemRaw(Tail(a), k)
             t  == hi.r * Base + Head(a)
         IN  [q |-> <<t \div k>> \o hi.q, r |-> t % k]

\* quotient and remainder of a by k, 0 < k <= Base
BigTrimQuotient(d) == [q |-> BigTrim(d.q), r |-> d.r]

BigDivRem(a, k) == BigTrimQuotient(BigDivRemRaw(a, k))

RECURSIVE BigAddCarry(_, _, _)
BigAddCarry(a, b, c) ==
    IF a = <<>> /\ b = <<>> THEN BigFromInt(c)
    ELSE LET x == IF a = <<>> THEN 0 ELSE Head(a)
             y == IF b = <<>> THEN 0 ELSE Head(b)
             t == x + y + c
         IN  <<t % Base>>
             \o BigAddCarry(IF a = <<>> THEN <<>> ELSE Tail(a),
                            IF b = <<>> THEN <<>> ELSE Tail(b), t \div Base)

BigAdd(a, b) == BigTrim(BigAddCarry(a, b, 0))

RECURSIVE IntBitLen(_)
IntBitLen(n) == IF n = 0 THEN 0 ELSE 1 + IntBitLen(n \div 2)

BigBitLen(a) ==
    IF a = <<>> THEN 0 ELSE (Len(a) - 1) * LimbBits + IntBitLen(a[Len(a)])

\* bit i (from 0) of a
BigBit(a, i) ==
    LET k == i \div LimbBits + 1
    IN  IF k > Len(a) THEN 0 ELSE (a[k] \div 2^(i % LimbBits)) % 2

\* whether any of the low j bits of a is set
BigLowNonzero(a, j) ==
    \E i \in 0..(j - 1) : BigBit(a, i) = 1

\* a * 2^j
BigShl(a, j) ==
    IF a = <<>> THEN <<>>
    ELSE BigMulSmall([i \in 1..(j \div LimbBits) |-> 0] \o a, 2^(j % LimbBits))

\* floor(a / 2^j)
BigShr(a, j) ==
    LET w == j \div LimbBits
    IN  IF w >= Len(a) THEN <<>>
        ELSE BigDivRem(SubSeq(a, w + 1, Len(a)), 2^(j % LimbBits)).q

\* a / 2^j rounded to the nearest integer, ties to even; sticky says that a
\* stands for a value slightly above a (a non-zero part was cut off before)
BigRoundUp(a, j, sticky, q) ==
    /\ BigBit(a, j - 1) = 1
    /\ sticky \/ BigLowNonzero(a, j - 1) \/ BigBit(q, 0) = 1

BigRoundQuotient(a, j, sticky, q) ==
    IF BigRoundUp(a, j, sticky, q) THEN BigAdd(q, <<1>>) ELSE q

BigRoundShr(a, j, sticky) ==
    IF j = 0 THEN a ELSE BigRoundQuotient(a, j, sticky, BigShr(a, j))

(***************************************************************************)
(* IEEE-754 binary64, round to nearest even.  A double is [m, e]: the      *)
(* value m * 2^e, m of exactly MantBits bits, or m = <<>> for zero.        *)
(***************************************************************************)
MantBits == 53
Guard == 2^6

DZero == [m |-> <<>>, e |-> 0]

\* the double nearest to n * 2^s (n a natural; sticky as in BigRoundShr)
\* r * 2^e with r rounded to MantBits bits: rounding up may have carried into
\* one bit more
DNormal(r, e) ==
    IF BigBitLen(r) > MantBits
    THEN [m |-> BigShr(r, 1), e |-> e + 1]
    ELSE [m |-> r, e |-> e]

DRoundLen(n, s, sticky, len) ==
    IF n = <<>> THEN DZero
    ELSE IF len <= MantBits
         THEN [m |-> BigShl(n, MantBits - len), e |-> s - (MantBits - len)]
    ELSE DNormal(BigRoundShr(n, len - MantBits, sticky), s + len - MantBits)

DRound(n, s, sticky) == DRoundLen(n, s, sticky, BigBitLen(n))

\* the double nearest to (d.q + d.r / k) * 2^s, d a quotient and remainder
DRoundDiv(d, s) == DRound(d.q, s, d.r # 0)

\* float("<n/1000>"): the double nearest to the decimal n thousandths
DFromMilli(n) ==
    DRoundDiv(BigDivRem(BigShl(BigFromInt(n), Guard), 1000), 0 - Guard)

\* x + y
DAdd(x, y) ==
    IF x.m = <<>> THEN y
    ELSE IF y.m = <<>> THEN x
    ELSE LET e == Min(x.e, y.e)
         IN  DRound(BigAdd(BigShl(x.m, x.e - e), BigShl(y.m, y.e - e)), e, FALSE)

\* x / k for an integer 0 < k < Base
DDivInt(x, k) == DRoundDiv(BigDivRem(BigShl(x.m, Guard), k), x.e - Guard)

\* round(x, 2) for 0 <= x < 2^20, as a number of hundredths: Python rounds
\* the exact binary value of x to the nearest hundredth, ties to even
Round2(x) ==
    IF x.m = <<>> THEN 0
    ELSE BigToInt(BigRoundShr(BigMulSmall(x.m, 100), 0 - x.e, FALSE))

(***************************************************************************)
(* Text: str.upper, str.strip, str.split('\n'), slicing.                   *)
(***************************************************************************)
LowerCase == "abcdefghijklmnopqrstuvwxyz"
UpperCase == "ABCDEFGHIJKLMNOPQRSTUVWXYZ"

CharAt(s, i) == SubSeq(s, i, i)

UpperChar(c) ==
    IF \E i \in 1..Len(LowerCase) : CharAt(LowerCase, i) = c
    THEN CharAt(UpperCase, CHOOSE i \in 1..Len(LowerCase) : CharAt(LowerCase, i) = c)
    ELSE c

RECURSIVE Upper(_)
Upper(s) ==
    IF Len(s) = 0 THEN ""
    ELSE UpperChar(CharAt(s, 1)) \o Upper(SubSeq(s, 2, Len(s)))

IsSpace(c) == c \in {" ", "\n", "\t", "\r"}

RECURSIVE LStrip(_)
LStrip(s) ==
    IF Len(s) > 0 /\ IsSpace(CharAt(s, 1)) THEN LStrip(SubSeq(s, 2, Len(s))) ELSE s

RECURSIVE RStrip(_)
RStrip(s) ==
    IF Len(s) > 0 /\ IsSpace(CharAt(s, Len(s)))
    THEN RStrip(SubSeq(s, 1, Len(s) - 1)) ELSE s

Strip(s) == RStrip(LStrip(s))

\* s.split('\n'): the pieces between the newlines; never an empty list
RECURSIVE SplitLines(_)
SplitLines(s) ==
    IF \E i \in 1..Len(s) : CharAt(s, i) = "\n"
    THEN LET i == CHOOSE k \in 1..Len(s) :
                      /\ CharAt(s, k) = "\n"
                      /\ \A j \in 1..(k - 1) : CharAt(s, j) # "\n"
         IN  <<SubSeq(s, 1, i - 1)>> \o SplitLines(SubSeq(s, i + 1, Len(s)))
    ELSE <<s>>

\* s[:n]
Prefix(s, n) == SubSeq(s, 1, Min(n, Len(s)))

\* s.tail(n) / lst[-n:]
LastN(s, n) == SubSeq(s, Len(s) - Min(n, Len(s)) + 1, Len(s))

(***************************************************************************)
(* strftime.  A date is a day number from 1970-01-01; CivilFromDays gives  *)
(* its proleptic Gregorian year, month and day.                            *)
(***************************************************************************)
CivilFromDays(days) ==
    LET z   == days + 719468
        era == z \div 146097
        doe == z - era * 146097
        yoe == (doe - doe \div 1460 + doe \div 36524 - doe \div 146096) \div 365
        doy == doe - (365 * yoe + yoe \div 4 - yoe \div 100)
        mp  == (5 * doy + 2) \div 153
        d   == doy - (153 * mp + 2) \div 5 + 1
        m   == IF mp < 10 THEN mp + 3 ELSE mp - 9
        y   == yoe + era * 400 + (IF m <= 2 THEN 1 ELSE 0)
    IN  [y |-> y, m |-> m, d |-> d]

Digit(n) == CharAt("0123456789", n + 1)

Pad2(n) == Digit((n \div 10) % 10) \o Digit(n % 10)

Pad4(n) == Pad2(n \div 100) \o Pad2(n % 100)

\* strftime('%Y-%m-%d')
FormatDate(ts) ==
    LET c == CivilFromDays(ts.day)
    IN  Pad4(c.y) \o "-" \o Pad2(c.m) \o "-" \o Pad2(c.d)

\* strftime('%Y-%m')
FormatMonth(ts) ==
    LET c == CivilFromDays(ts.day) IN Pad4(c.y) \o "-" \o Pad2(c.m)

\* strftime('%H:%M')
FormatTime(ts) == Pad2(ts.minute \div 60) \o ":" \o Pad2(ts.minute % 60)

(***************************************************************************)
(* Values shared by the handlers.  A raw series (a pandas DataFrame) is    *)
(* [kind |-> "frame", hasClose, bars]: bars in the provider's order, each  *)
(* [ts |-> [day, minute], close]; hasClose says whether the frame has a    *)
(* 'Close' column.  A block of Python statements ends in Return(v) or in   *)
(* Raise(message).                                                         *)
(***************************************************************************)
None == [kind |-> "None"]

Return(v) == [kind |-> "return", value |-> v]

Raise(m) == [kind |-> "raise", msg |-> m]

\* data.empty
Empty(data) == data.bars = <<>>

\* data['Close'] on a frame without that column: str(KeyError('Close'))
KeyErrorClose == "'Close'"

\* the closes the upstream series are made of, in thousandths
ClosePattern == <<100004, 100006, 100005, 2675, 125, 99995, 150000>>
MonthlyCloses == {100004, 100006, 2675, 125, 99995}
ClosePrices == {ClosePattern[i] : i \in 1..Len(ClosePattern)} \cup MonthlyCloses

\* float(price), worked out once for each close
DoubleOf == [p \in ClosePrices |-> DFromMilli(p)]

\* round(float(price), 2), worked out once for each close
RoundedClose == [p \in ClosePrices |-> Round2(DoubleOf[p])]

RoundClose(price) == RoundedClose[price]

\* the names the module binds at import (lines 1-6, 8, 12, 17); the handlers
\* resolve every other global name by raising NameError
ModuleGlobals ==
    {"Flask", "jsonify", "send_from_directory", "CORS", "yf", "datetime",
     "timedelta", "json", "os", "app", "GEMINI_API_KEY", "cache"}

NameErrorMsg(name) == "name '" \o name \o "' is not defined"

\* lines 12-14, run when the module is imported: with a non-empty key,
\* genai.configure is reached and the name genai is resolved
configure_genai(key) ==
    IF key # "" /\ "genai" \notin ModuleGlobals
    THEN Raise(NameErrorMsg("genai"))
    ELSE Return(key)

(***************************************************************************)
(* Market Data Adapter                                                     *)
(***************************************************************************)
HistoryCall(ticker, period, interval) ==
    [api |-> "yf.Ticker.history", ticker |-> ticker, period |-> period,
     interval |-> interval]

\* upstream is what stock.history(...) does when called: it raises, or it
\* returns a frame
get_stock_data(ticker, period, interval, upstream) ==
    IF upstream.kind = "raise"
    THEN [data  |-> None,
          calls |-> <<HistoryCall(ticker, period, interval)>>,
          log   |-> <<"Error fetching " \o ticker \o ": " \o upstream.msg>>]
    ELSE [data  |-> upstream,
          calls |-> <<HistoryCall(ticker, period, interval)>>,
          log   |-> <<>>]

(***************************************************************************)
(* Series Formatters                                                       *)
(***************************************************************************)
TailBars == 30

\* faulty variant, for comparison: no except clause
CatchNothing(outcome) == outcome

\* except Exception as e: return {"error": str(e)}
CatchAsError(outcome) ==
    IF outcome.kind = "raise" THEN Return([error |-> outcome.msg]) ELSE outcome

\* faulty variant, for comparison: an error key in the success object
SeriesResponseWithError(ticker, range, labels, values) ==
    [ticker |-> ticker, range |-> range, labels |-> labels, values |-> values,
     count |-> Len(values), error |-> ""]

SeriesResponse(ticker, range, labels, values) ==
    [ticker |-> ticker, range |-> range, labels |-> labels, values |-> values,
     count |-> Len(values)]

\* faulty variant, for comparison: data[data.index.date <= today]
BeforeOrOnToday(bars, today) == SelectSeq(bars, LAMBDA b : b.ts.day <= today)

\* data[data.index.date < today]
BeforeToday(bars, today) == SelectSeq(bars, LAMBDA b : b.ts.day < today)

\* data[data.index.date == date]
OnDate(bars, date) == SelectSeq(bars, LAMBDA b : b.ts.day = date)

\* filtered.tail(30)
RecentBars(filtered) == LastN(filtered, TailBars)

DailyLabels(recent) == [i \in 1..Len(recent) |-> FormatDate(recent[i].ts)]

CloseValues(bars) == [i \in 1..Len(bars) |-> RoundClose(bars[i].close)]

\* the try block of format_daily_data, after the fetch
DailyBody(ticker, today, data) ==
    IF data = None \/ Empty(data) THEN Return([error |-> "No data available"])
    ELSE LET filtered == BeforeToday(data.bars, today)
         IN  IF filtered = <<>>
             THEN Return([error |-> "No historical data before today"])
             ELSE LET recent == RecentBars(filtered)
                      labels == DailyLabels(recent)
                  IN  IF ~data.hasClose THEN Raise(KeyErrorClose)
                      ELSE Return(SeriesResponse(ticker, "daily", labels,
                                                 CloseValues(recent)))

format_daily_data(ticker, today, upstream) ==
    LET f == get_stock_data(ticker, "1mo", "1d", upstream)
    IN  [out   |-> CatchAsError(DailyBody(ticker, today, f.data)),
         calls |-> f.calls, log |-> f.log]

\* faulty variant, for comparison: no fallback to the last bar's date
IntradayYesterdayOnly(bars, today) == OnDate(bars, today - 1)

\* the bars of yesterday, or of the last bar's date when there are none
IntradaySelection(bars, today) ==
    LET yesterday == today - 1
        filtered  == OnDate(bars, yesterday)
    IN  IF filtered = <<>> /\ bars # <<>>
        THEN OnDate(bars, bars[Len(bars)].ts.day)
        ELSE filtered

IntradayLabels(filtered) == [i \in 1..Len(filtered) |-> FormatTime(filtered[i].ts)]

\* the try block of format_intraday_data, after the fetch
IntradayBody(ticker, today, data) ==
    IF data = None \/ Empty(data) THEN Return([error |-> "No data available"])
    ELSE LET filtered == IntradaySelection(data.bars, today)
         IN  IF filtered = <<>>
             THEN Return([error |-> "No intraday data available"])
             ELSE LET labels == IntradayLabels(filtered)
                  IN  IF ~data.hasClose THEN Raise(KeyErrorClose)
                      ELSE Return(SeriesResponse(ticker, "intraday", labels,
                                                 CloseValues(filtered)))

format_intraday_data(ticker, today, upstream) ==
    LET f == get_stock_data(ticker, "2d", "30m", upstream)
    IN  [out   |-> CatchAsError(IntradayBody(ticker, today, f.data)),
         calls |-> f.calls, log |-> f.log]

\* the closes added up left to right in double arithmetic
RECURSIVE SumCloses(_)
SumCloses(bars) ==
    IF bars = <<>> THEN DZero
    ELSE DAdd(SumCloses(SubSeq(bars, 1, Len(bars) - 1)),
              DoubleOf[bars[Len(bars)].close])

\* faulty variant, for comparison: the latest close instead of the mean
LatestClose(bars) == RoundClose(bars[Len(bars)].close)

\* round(float(data['Close'].mean()), 2)
AverageClose(bars) == Round2(DDivInt(SumCloses(bars), Len(bars)))

\* the try block of format_monthly_data, after the fetch
MonthlyBody(ticker, data) ==
    IF data = None \/ Empty(data) THEN Return([error |-> "No data available"])
    ELSE IF ~data.hasClose THEN Raise(KeyErrorClose)
    ELSE LET avg_close    == AverageClose(data.bars)
             period_label == FormatMonth(data.bars[Len(data.bars)].ts)
         IN  Return(SeriesResponse(ticker, "monthly", <<period_label>>,
                                   <<avg_close>>))

format_monthly_data(ticker, upstream) ==
    LET f == get_stock_data(ticker, "1mo", "1d", upstream)
    IN  [out   |-> CatchAsError(MonthlyBody(ticker, f.data)),
         calls |-> f.calls, log |-> f.log]

(***************************************************************************)
(* HTTP Routing Layer: jsonify(...) of what the view function returns is   *)
(* status 200; a view function that raises is answered by Flask with 500.  *)
(***************************************************************************)
FlaskResponse(outcome) ==
    IF outcome.kind = "raise"
    THEN [status |-> 500, body |-> [error |-> "Internal Server Error"]]
    ELSE [status |-> 200, body |-> outcome.value]

get_daily(ticker, today, upstream) ==
    LET r == format_daily_data(Upper(ticker), today, upstream)
    IN  [response |-> FlaskResponse(r.out), calls |-> r.calls, log |-> r.log]

get_monthly(ticker, upstream) ==
    LET r == format_monthly_data(Upper(ticker), upstream)
    IN  [response |-> FlaskResponse(r.out), calls |-> r.calls, log |-> r.log]

get_intraday(ticker, today, upstream) ==
    LET r == format_intraday_data(Upper(ticker), today, upstream)
    IN  [response |-> FlaskResponse(r.out), calls |-> r.calls, log |-> r.log]

(***************************************************************************)
(* Decision Service                                                        *)
(***************************************************************************)
ErrorChars == 50
RecentCount == 5

NoKeyReason == "No Gemini API key configured. Using default HOLD action."
UnclearReason == "Unable to determine clear action; defaulting to HOLD."
DefaultReason == "AI analysis complete."
ErrorPrefix == "Error during analysis: "
Actions == {"BUY", "SELL", "HOLD"}

DecisionResponse(ticker, action, reason) ==
    [ticker |-> ticker, action |-> action, reason |-> reason]

\* lines 188-201: the reply's text to the response body
ParseReply(ticker, text) ==
    LET lines  == SplitLines(Strip(text))
        action == Upper(Strip(lines[1]))
        reason == IF Len(lines) > 1 THEN Strip(lines[2]) ELSE DefaultReason
    IN  IF action \notin Actions
        THEN DecisionResponse(ticker, "HOLD", UnclearReason)
        ELSE DecisionResponse(ticker, action, reason)

\* lines 167-182: what the f-string puts into the prompt
Prompt(ticker, info, hist) ==
    LET closes        == [i \in 1..Len(hist.bars) |-> hist.bars[i].close]
        recent_prices == LastN(closes, RecentCount)
        current_price == IF recent_prices # <<>>
                         THEN RoundClose(recent_prices[Len(recent_prices)])
                         ELSE 0
    IN  [ticker  |-> ticker,
         company |-> IF info.hasLongName THEN info.longName ELSE ticker,
         current |-> current_price,
         recent  |-> [i \in 1..Len(recent_prices) |-> RoundClose(recent_prices[i])]]

InfoCall(ticker) == [api |-> "yf.Ticker.info", ticker |-> ticker]

GenerateCall(prompt) == [api |-> "genai.generate_content", prompt |-> prompt]

\* faulty variant, for comparison: the status code left out
NoDataResponseOk == [status |-> 200, body |-> [error |-> "No data available"]]

\* line 165: jsonify({"error": "No data available"}), 400
NoDataResponse == [status |-> 400, body |-> [error |-> "No data available"]]

\* lines 184-201: the model is asked and its reply parsed; made are the
\* outbound calls made so far
AskModel(ticker, env, made, prompt) ==
    IF "genai" \notin ModuleGlobals
    THEN [out |-> Raise(NameErrorMsg("genai")), calls |-> made]
    ELSE IF env.model.kind \in {"raise", "notext"}
         THEN [out   |-> Raise(env.model.msg),
               calls |-> Append(made, GenerateCall(prompt))]
    ELSE [out   |-> Return([status |-> 200,
                            body |-> ParseReply(ticker, env.model.text)]),
          calls |-> Append(made, GenerateCall(prompt))]

\* the try block of get_decision (lines 149-201).  env is what the three
\* upstream calls do when made: env.hist for stock.history(period='5d'),
\* env.info for stock.info, env.model for the text-generation call.
DecisionTry(key, ticker, env) ==
    IF key = ""
    THEN [out   |-> Return([status |-> 200,
                            body |-> DecisionResponse(ticker, "HOLD", NoKeyReason)]),
          calls |-> <<>>]
    ELSE
    LET c1 == <<HistoryCall(ticker, "5d", "1d")>>
        c2 == <<HistoryCall(ticker, "5d", "1d"), InfoCall(ticker)>>
    IN  IF env.hist.kind = "raise" THEN [out |-> Raise(env.hist.msg), calls |-> c1]
        ELSE IF env.info.kind = "raise"
             THEN [out |-> Raise(env.info.msg), calls |-> c2]
        ELSE IF Empty(env.hist) THEN [out |-> Return(NoDataResponse), calls |-> c2]
        ELSE IF ~env.hist.hasClose THEN [out |-> Raise(KeyErrorClose), calls |-> c2]
        ELSE AskModel(ticker, env, c2, Prompt(ticker, env.info, env.hist))

\* faulty variant, for comparison: str(e), not cut
TruncatedMessageWhole(msg) == msg

\* str(e)[:50]
TruncatedMessage(msg) == Prefix(msg, ErrorChars)

\* lines 202-208
DecisionExcept(ticker, msg) ==
    [status |-> 200,
     body   |-> DecisionResponse(ticker, "HOLD", ErrorPrefix \o TruncatedMessage(msg))]

\* the handler's answer to what its try block did (t)
DecisionAnswer(ticker, t) ==
    IF t.out.kind = "raise"
    THEN [response |-> DecisionExcept(ticker, t.out.msg),
          calls    |-> t.calls,
          log      |-> <<"Gemini API error: " \o t.out.msg>>]
    ELSE [response |-> t.out.value, calls |-> t.calls, log |-> <<>>]

\* faulty variant, for comparison: the credential check left out
DecisionForKeyless(key, ticker, env) ==
    DecisionAnswer(ticker, DecisionTry("k", ticker, env))

DecisionFor(key, ticker, env) == DecisionAnswer(ticker, DecisionTry(key, ticker, env))

get_decision(key, path_ticker, env) == DecisionFor(key, Upper(path_ticker), env)

(***************************************************************************)
(* The environment: request paths, the UTC date, and what the upstream     *)
(* services answer.                                                        *)
(***************************************************************************)
MaxDailyBars == 32
MaxIntradayBars == 2
MaxMonthlyBars == 3
FirstToday == 19782

Tickers == {"aapl", "MSFT"}

\* datetime.utcnow().date(): 2024-02-29 and the day after
Todays == {FirstToday, FirstToday + 1}

Messages ==
    {"connection reset",
     "Too Many Requests. Rate limited. Try after a while",
     "HTTPSConnectionPool(host='query2.finance.yahoo.com', port=443): Read timed out."}

Failures == {Raise(m) : m \in Messages}

Frame(hasClose, bars) == [kind |-> "frame", hasClose |-> hasClose, bars |-> bars]

Bar(day, minute, close) == [ts |-> [day |-> day, minute |-> minute], close |-> close]

PatternClose(i) == ClosePattern[(i % Len(ClosePattern)) + 1]

\* n daily bars on consecutive days, the last one on day last
DailyBars(last, n) == [i \in 1..n |-> Bar(last - n + i, 0, PatternClose(i))]

NoCloseFrames(frames) ==
    {Frame(FALSE, f.bars) : f \in {g \in frames : Len(g.bars) <= 2}}

\* the last bar is dated from two days before today to tomorrow (an exchange
\* east of UTC is a calendar day ahead)
DailyFrames(today) ==
    LET good == {Frame(TRUE, DailyBars(today + d, n)) :
                    d \in (0 - 2)..1, n \in 0..MaxDailyBars}
    IN  good \cup NoCloseFrames(good)

\* k half-hour bars from 09:30 on one day
SessionBars(day, k, first) ==
    [i \in 1..k |-> Bar(day, 570 + 30 * (i - 1), PatternClose(first + i))]

\* up to two sessions, the later one from three days before today to today
IntradayFrames(today) ==
    LET good == {Frame(TRUE, SessionBars(today + d - gap, a, 0)
                             \o SessionBars(today + d, b, a)) :
                    d \in (0 - 3)..0, gap \in {1, 3},
                    a \in 0..MaxIntradayBars, b \in 0..MaxIntradayBars}
    IN  good \cup NoCloseFrames(good)

MonthlyFrames ==
    LET good == {Frame(TRUE, [i \in 1..n |-> Bar(last - n + i, 0, c[i])]) :
                    <<n, last, c>> \in
                        UNION {{<<k, l, f>> : l \in Todays, f \in [1..k -> MonthlyCloses]} :
                                   k \in 0..MaxMonthlyBars}}
    IN  good \cup NoCloseFrames(good)

HistOutcomes ==
    Failures
    \cup {Frame(TRUE, DailyBars(FirstToday, n)) : n \in {0, 1, 3, 7}}
    \cup {Frame(FALSE, DailyBars(FirstToday, 2))}

InfoOutcomes ==
    {Raise(m) : m \in Messages}
    \cup {[kind |-> "info", hasLongName |-> TRUE, longName |-> "Apple Inc."],
          [kind |-> "info", hasLongName |-> FALSE, longName |-> ""]}

Replies ==
    {"BUY\nStrong upward momentum.", " sell \n  Weak earnings. ", "HOLD",
     "MAYBE\nuncertain", "", "Buy now\nprices are rising", "hold\n\nstable"}

ModelOutcomes ==
    {Raise("503 The model is overloaded. Please try again later.")}
    \cup {[kind |-> "notext",
           msg  |-> "Invalid operation: the response.text quick accessor requires a valid Part"]}
    \cup {[kind |-> "reply", text |-> t] : t \in Replies}

DecisionEnvs == [hist : HistOutcomes, info : InfoOutcomes, model : ModelOutcomes]

(***************************************************************************)
(* State machine.  One request is handled at a time (the handlers share no *)
(* state); request, response, calls (the outbound calls made for it) and   *)
(* log (what it printed) are those of the request in hand.                 *)
(*                                                                         *)
(* GEMINI_API_KEY is the module global get_decision reads on every request *)
(* (line 151).  The handlers are checked for both of its settings; that    *)
(* importing the module with a key set already raises is configure_genai.  *)
(***************************************************************************)
Idle == [route |-> "none"]

Init ==
    /\ GEMINI_API_KEY \in {"", "k"}
    /\ request = Idle
    /\ response = Idle
    /\ calls = <<>>
    /\ log = <<>>

ServeDaily ==
    /\ request = Idle
    /\ \E t \in Tickers, today \in Todays :
        \E up \in Failures \cup DailyFrames(today) :
            \E r \in {get_daily(t, today, up)} :
                /\ request' = [route |-> "daily", ticker |-> t, today |-> today,
                               upstream |-> up]
                /\ response' = r.response
                /\ calls' = r.calls
                /\ log' = r.log
    /\ UNCHANGED GEMINI_API_KEY

ServeIntraday ==
    /\ request = Idle
    /\ \E t \in Tickers, today \in Todays :
        \E up \in Failures \cup IntradayFrames(today) :
            \E r \in {get_intraday(t, today, up)} :
                /\ request' = [route |-> "intraday", ticker |-> t, today |-> today,
                               upstream |-> up]
                /\ response' = r.response
                /\ calls' = r.calls
                /\ log' = r.log
    /\ UNCHANGED GEMINI_API_KEY

ServeMonthly ==
    /\ request = Idle
    /\ \E t \in Tickers, up \in Failures \cup MonthlyFrames :
        \E r \in {get_monthly(t, up)} :
            /\ request' = [route |-> "monthly", ticker |-> t, upstream |-> up]
            /\ response' = r.response
            /\ calls' = r.calls
            /\ log' = r.log
    /\ UNCHANGED GEMINI_API_KEY

ServeDecision ==
    /\ request = Idle
    /\ \E t \in Tickers, env \in DecisionEnvs :
        \E r \in {get_decision(GEMINI_API_KEY, t, env)} :
            /\ request' = [route |-> "decision", ticker |-> t, env |-> env]
            /\ response' = r.response
            /\ calls' = r.calls
            /\ log' = r.log
    /\ UNCHANGED GEMINI_API_KEY

\* the response is sent and the request context is torn down
SendResponse ==
    /\ request # Idle
    /\ request' = Idle
    /\ response' = Idle
    /\ calls' = <<>>
    /\ log' = <<>>
    /\ UNCHANGED GEMINI_API_KEY

Next ==
    \/ ServeDaily
    \/ ServeIntraday
    \/ ServeMonthly
    \/ ServeDecision
    \/ SendResponse

Spec == Init /\ [][Next]_vars

(***************************************************************************)
(* Properties                                                              *)
(***************************************************************************)
Decision == request.route = "decision"

Formatter == request.route \in {"daily", "intraday", "monthly"}

\* the request's upstream call returned a frame with a 'Close' column
GoodFrame == request.upstream.kind = "frame" /\ request.upstream.hasClose

\* the path segment, uppercased
PathUpper == CASE request.ticker = "aapl" -> "AAPL" [] request.ticker = "MSFT" -> "MSFT"

\* a credential is set, both market-data fetches succeed with a non-empty
\* series of closes, and the text-generation call would return a reply
ModelReplies ==
    /\ Decision
    /\ GEMINI_API_KEY # ""
    /\ request.env.hist.kind = "frame"
    /\ request.env.hist.hasClose
    /\ request.env.hist.bars # <<>>
    /\ request.env.info.kind = "info"
    /\ request.env.model.kind = "reply"

\* the reply's first line, trimmed and uppercased, and its second line, trimmed
ReplyLines == SplitLines(Strip(request.env.model.text))
ReplyWord == Upper(Strip(ReplyLines[1]))
ReplyReason == IF Len(ReplyLines) > 1 THEN Strip(ReplyLines[2]) ELSE "AI analysis complete."

\* C1: every decision response that has an action has BUY, SELL or HOLD, and a
\* model reply whose first line is none of the three is answered HOLD with the
\* fixed "unable to determine" reason
C1_UnclearReplyIsHold ==
    Decision =>
        /\ "action" \in DOMAIN response.body =>
               response.body.action \in {"BUY", "SELL", "HOLD"}
        /\ (ModelReplies /\ ReplyWord \notin {"BUY", "SELL", "HOLD"}) =>
               /\ response.body.action = "HOLD"
               /\ response.body.reason
                      = "Unable to determine clear action; defaulting to HOLD."

\* C10: a reply whose first line is BUY, SELL or HOLD is answered 200 with that
\* action and the reply's second line (or the default) as the reason; BUY and
\* SELL are answered only then
C10_ReplyActionReturned ==
    /\ (ModelReplies /\ ReplyWord \in {"BUY", "SELL", "HOLD"}) =>
           response = [status |-> 200,
                       body |-> [ticker |-> PathUpper, action |-> ReplyWord,
                                 reason |-> ReplyReason]]
    /\ (Decision /\ "action" \in DOMAIN response.body
           /\ response.body.action \in {"BUY", "SELL"}) =>
           (ModelReplies /\ ReplyWord = response.body.action)

\* the message of the exception the pipeline of the request in hand ends with:
\* the history fetch's, else the info fetch's, else that of reading the closes
\* or of constructing the model client
PipelineRaises ==
    /\ Decision
    /\ GEMINI_API_KEY # ""
    /\ \/ request.env.hist.kind = "raise"
       \/ request.env.info.kind = "raise"
       \/ request.env.hist.bars # <<>>

PipelineMessage ==
    IF request.env.hist.kind = "raise" THEN request.env.hist.msg
    ELSE IF request.env.info.kind = "raise" THEN request.env.info.msg
    ELSE IF ~request.env.hist.hasClose THEN "'Close'"
    ELSE "name 'genai' is not defined"

\* C2: with a credential, a pipeline that raises is answered 200, HOLD, with
\* "Error during analysis: " and exactly the first 50 characters of the message
C2_ExceptionFailsOpen ==
    /\ Decision => response.status # 500
    /\ PipelineRaises =>
           /\ response.status = 200
           /\ DOMAIN response.body = {"ticker", "action", "reason"}
           /\ response.body.ticker = PathUpper
           /\ response.body.action = "HOLD"
           /\ Len(response.body.reason)
                  = Len("Error during analysis: ") + Min(50, Len(PipelineMessage))
           /\ response.body.reason
                  = SubSeq("Error during analysis: " \o PipelineMessage,
                           1, Len(response.body.reason))
           /\ log = <<"Gemini API error: " \o PipelineMessage>>

C2_Witness ==
    /\ PipelineRaises
    /\ request.env.hist.kind = "frame"
    /\ request.env.info.kind = "raise"
    /\ Len(request.env.info.msg) > 50
    /\ Len(response.body.reason) = Len("Error during analysis: ") + 50

\* C3: without a credential the decision is 200, HOLD, with the fixed reason
\* and the uppercased ticker, no outbound call is made, and the answer is the
\* same whatever the upstream services would have said
C3_NoKeyHold ==
    /\ (Decision /\ GEMINI_API_KEY = "") =>
           /\ response
                  = [status |-> 200,
                     body |-> [ticker |-> PathUpper, action |-> "HOLD",
                               reason |-> "No Gemini API key configured. Using default HOLD action."]]
           /\ calls = <<>>
    /\ (request = Idle /\ GEMINI_API_KEY = "") =>
           \A t \in Tickers : \A e1, e2 \in DecisionEnvs :
               get_decision(GEMINI_API_KEY, t, e1) = get_decision(GEMINI_API_KEY, t, e2)

C3_Witness ==
    /\ Decision
    /\ GEMINI_API_KEY = ""
    /\ request.ticker = "aapl"
    /\ request.env.hist.kind = "frame"
    /\ response.body.ticker = "AAPL"

ErrorShape(b) == DOMAIN b = {"error"}

SuccessShape(b) ==
    /\ DOMAIN b = {"ticker", "range", "labels", "values", "count"}
    /\ Len(b.labels) = Len(b.values)
    /\ Len(b.values) = b.count

\* C4: a formatter's output is an error object or a success object, never
\* both, and a success object has as many labels as values as its count
C4_SeriesShape ==
    Formatter =>
        /\ response.status = 200
        /\ ErrorShape(response.body) \/ SuccessShape(response.body)
        /\ SuccessShape(response.body) => response.body.range = request.route

C4_Witness ==
    /\ Formatter
    /\ SuccessShape(response.body)
    /\ response.body.count > 30 - 1

\* a value is the close rounded to hundredths: within half a hundredth of it
NearestCents(cents, milli) == (10 * cents - milli) \in (0 - 5)..5

\* the body is the success object for exactly these bars, one
\* date label and one rounded close each
DailySuccess(kept) ==
    /\ SuccessShape(response.body)
    /\ response.body.ticker = PathUpper
    /\ response.body.count = Len(kept)
    /\ \A i \in 1..Len(kept) :
           /\ response.body.labels[i] = FormatDate(kept[i].ts)
           /\ Len(response.body.labels[i]) = 10
           /\ NearestCents(response.body.values[i], kept[i].close)

DailyServed ==
    /\ request.route = "daily"
    /\ GoodFrame
    /\ request.upstream.bars # <<>>

\* C5 as stated: the bars dated today are removed and the last min(30, n) of
\* the others returned
C5_DropsTodayOnly ==
    (DailyServed /\ SuccessShape(response.body)) =>
        DailySuccess(LastN(SelectSeq(request.upstream.bars,
                                     LAMBDA b : b.ts.day # request.today), 30))

\* C5 amended: the bars dated today or later are removed; the last min(30, n)
\* of the n >= 1 bars left are returned in order, and with none left the
\* result is an error
C5_DropsTodayAndLater ==
    DailyServed =>
        LET left == SelectSeq(request.upstream.bars,
                              LAMBDA b : b.ts.day < request.today)
        IN  IF left = <<>>
            THEN response.body = [error |-> "No historical data before today"]
            ELSE /\ DailySuccess(LastN(left, 30))
                 /\ response.body.count = Min(30, Len(left))
                 /\ FormatDate([day |-> request.today, minute |-> 0])
                        \notin {response.body.labels[i] : i \in 1..response.body.count}

C5_Witness ==
    /\ DailyServed
    /\ SuccessShape(response.body)
    /\ response.body.count = 30
    /\ \E i \in 1..Len(request.upstream.bars) :
           request.upstream.bars[i].ts.day = request.today
    /\ \E i \in 1..Len(request.upstream.bars) :
           request.upstream.bars[i].ts.day > request.today

IntradayServed ==
    /\ request.route = "intraday"
    /\ GoodFrame
    /\ request.upstream.bars # <<>>

BarsOn(day) == SelectSeq(request.upstream.bars, LAMBDA b : b.ts.day = day)

LastBarDay == request.upstream.bars[Len(request.upstream.bars)].ts.day

\* C6: a non-empty series always gives a success object: the bars of UTC
\* yesterday when there are any, else the bars of the last bar's date, in
\* the provider's order
C6_IntradayFallback ==
    /\ IntradayServed =>
           LET chosen == IF BarsOn(request.today - 1) # <<>>
                         THEN BarsOn(request.today - 1)
                         ELSE BarsOn(LastBarDay)
           IN  /\ SuccessShape(response.body)
               /\ response.body.count = Len(chosen)
               /\ response.body.count > 0
               /\ \A i \in 1..Len(chosen) :
                      /\ response.body.labels[i] = FormatTime(chosen[i].ts)
                      /\ NearestCents(response.body.values[i], chosen[i].close)
    /\ request.route = "intraday" =>
           response.body # [error |-> "No intraday data available"]

C6_Witness ==
    /\ IntradayServed
    /\ BarsOn(request.today - 1) = <<>>
    /\ LastBarDay = request.today - 3
    /\ SuccessShape(response.body)
    /\ response.body.count = 2

MonthlyServed ==
    /\ request.route = "monthly"
    /\ GoodFrame
    /\ request.upstream.bars # <<>>

RECURSIVE CloseTotal(_)
CloseTotal(bars) ==
    IF bars = <<>> THEN 0 ELSE Head(bars).close + CloseTotal(Tail(bars))

ClosesAre(closes) ==
    /\ Len(request.upstream.bars) = Len(closes)
    /\ \A i \in 1..Len(closes) : request.upstream.bars[i].close = closes[i]

\* exactly one point: the mean of the closes to the nearest hundredth,
\* labelled with the month of the last bar
MonthlyMean ==
    MonthlyServed =>
        /\ SuccessShape(response.body)
        /\ response.body.count = 1
        /\ response.body.labels = <<FormatMonth([day |-> LastBarDay, minute |-> 0])>>
        /\ Len(response.body.labels[1]) = 7
        /\ (10 * Len(request.upstream.bars) * response.body.values[1]
                - CloseTotal(request.upstream.bars))
               \in (0 - 5 * Len(request.upstream.bars))
                       ..(5 * Len(request.upstream.bars))

\* C7 as stated: one point, the rounded mean, and closes 100.004 and 100.006
\* give 100.01
C7_MeanRoundsUp ==
    /\ MonthlyMean
    /\ (MonthlyServed /\ ClosesAre(<<100004, 100006>>)) =>
           response.body.values = <<10001>>

\* C7 amended: one point, the rounded mean, and closes 100.004 and 100.006
\* give 100.0 (their double mean is below 100.005)
C7_MeanRoundsBinary ==
    /\ MonthlyMean
    /\ (MonthlyServed /\ ClosesAre(<<100004, 100006>>)) =>
           response.body.values = <<10000>>

C7_Witness ==
    /\ MonthlyServed
    /\ ClosesAre(<<100004, 100006>>)
    /\ response.body.count = 1

\* C8: a formatter route is never answered 5xx; a failed provider call gives
\* {error: "No data available"}; an exception of the transform gives
\* {error: <its message>}
C8_FormattersNeverRaise ==
    Formatter =>
        /\ response.status = 200
        /\ request.upstream.kind = "raise" =>
               /\ response.body = [error |-> "No data available"]
               /\ log = <<"Error fetching " \o PathUpper \o ": " \o request.upstream.msg>>
        /\ (request.upstream.kind = "frame" /\ ~request.upstream.hasClose
                /\ request.upstream.bars # <<>>) =>
               \/ response.body = [error |-> "'Close'"]
               \/ /\ request.route = "daily"
                  /\ \A i \in 1..Len(request.upstream.bars) :
                         request.upstream.bars[i].ts.day >= request.today
                  /\ response.body = [error |-> "No historical data before today"]

C8_Witness ==
    /\ Formatter
    /\ request.upstream.kind = "frame"
    /\ ~request.upstream.hasClose
    /\ response = [status |-> 200, body |-> [error |-> "'Close'"]]

EmptyHistory ==
    /\ Decision
    /\ GEMINI_API_KEY # ""
    /\ request.env.hist.kind = "frame"
    /\ request.env.hist.bars = <<>>

\* C9 as stated: an empty history is answered 400 whatever the other upstream
\* calls do, and nothing else is answered with a status other than 200
C9_EmptyHistoryIs400 ==
    /\ EmptyHistory =>
           response = [status |-> 400, body |-> [error |-> "No data available"]]
    /\ (Decision /\ response.status # 200) => EmptyHistory

\* C9 amended: an empty history is answered 400 when the info fetch does not
\* raise (and 200 HOLD when it does), and nothing else is answered with a
\* status other than 200
C9_EmptyHistoryAndInfoIs400 ==
    /\ (EmptyHistory /\ request.env.info.kind # "raise") =>
           response = [status |-> 400, body |-> [error |-> "No data available"]]
    /\ (EmptyHistory /\ request.env.info.kind = "raise") =>
           /\ response.status = 200
           /\ response.body.action = "HOLD"
    /\ (Decision /\ response.status # 200) =>
           (EmptyHistory /\ request.env.info.kind # "raise")

C9_Witness ==
    /\ EmptyHistory
    /\ request.env.info.kind = "info"
    /\ response.status = 400

====
